---- MODULE Spec2Model ----
(***************************************************************************)
(* Model of cholla_scaling: the scaling-case generator                     *)
(* (problem_props.py: _next_case, build_cases) and the command line        *)
(* pipeline (cli_main.py: cli_main; problem_props.py: setup_problem_dir,   *)
(* _setup_cholla_for_problem, _compile_cholla; pretty_subprocess.py).      *)
(***************************************************************************)
EXTENDS Integers, Sequences, FiniteSets, TLC

(* ------------------------------ bounds --------------------------------- *)
\* largest processor ceiling tried
MaxProc == 6
\* largest per-axis entry of the base case's nproc_grid_xyz
MaxBaseProc == 2
\* cap on the number of loop iterations of build_cases (never binding, see CapNotReached)
MaxIter == 8
\* longest --test-problem argument list
MaxArgs == 2
\* largest --max_nproc tried by the command line model
MaxNproc == 2

(* ----------------------------- variables ------------------------------- *)
VARIABLES
    \* build_cases: arguments
    base_case, origin_loc, scale_rule, max_proc, min_generated_proc,
    include_base_case,
    \* build_cases: generator frame
    gpc,        \* position of the generator
    case,       \* the local `case`
    prev,       \* argument of the latest _next_case call
    calls,      \* number of _next_case calls made so far
    gerr,       \* exception that ended the generator, or "none"
    yielded,    \* the cases yielded so far, in order
    \* cli_main: arguments and environment
    test_problem, max_nproc, cholla_dir_ok, make_jobs,
    base_dir_exists, fs0, bin0,
    \* cli_main: progress
    cpc,        \* position of cli_main
    idx,        \* index of the current entry of test_pairs
    created,    \* problem directories created by this run
    links,      \* problems whose directory got its two symlinks
    bin,        \* problems whose compiled binary is present in <cholla_dir>/bin
    started,    \* problems for which a build command was started
    build_failed, \* problems for which a build command had a non-zero exit status
    copied,     \* problems whose binary was copied into the problem directory
    scripts,    \* problem -> list of total_proc of the lines of run_tests.sh
    cerr        \* exception that ended cli_main, or "none"

genvars == <<base_case, origin_loc, scale_rule, max_proc, min_generated_proc,
             include_base_case, gpc, case, prev, calls, gerr, yielded>>
clivars == <<test_problem, max_nproc, cholla_dir_ok, make_jobs,
             base_dir_exists, fs0, bin0, cpc, idx, created, links, bin,
             started, build_failed, copied, scripts, cerr>>
vars == <<genvars, clivars>>

(* --------------------------- ProblemCase -------------------------------- *)
RECURSIVE prodFrom(_, _, _)
prodFrom(iterable, i, out) ==
    IF i > Len(iterable) THEN out
    ELSE prodFrom(iterable, i + 1, out * iterable[i])

prod(iterable) == prodFrom(iterable, 1, 1)

ProblemCase(left, width, shape, nproc) ==
    [grid_left_xyz |-> left, grid_width_xyz |-> width,
     grid_shape_xyz |-> shape, nproc_grid_xyz |-> nproc]

total_proc(c) == prod(c.nproc_grid_xyz)

OriginLoc == {"LEFT", "CENTER"}

ScaleRule == {"X_AXIS", "Z_AXIS", "XY_PLANE"}

(* ----------------------------- _next_case ------------------------------- *)
\* which branch of the if/elif chain on scale_rule is taken; the third
\* comparison evaluates ScaleRule.XY_AXIS, which is not a member of the enum
select_transform(rule) ==
    IF rule = "X_AXIS" THEN "x"
    ELSE IF rule = "Z_AXIS" THEN "z"
    ELSE IF "XY_AXIS" \notin ScaleRule THEN "AttributeError"
    ELSE IF rule = "XY_AXIS" THEN "xy"
    ELSE "RuntimeError"

generic_transform_zsame(branch, triple) ==
    IF branch = "x" THEN <<triple[1] * 2, triple[2], triple[3]>>
    ELSE IF branch = "z" THEN <<triple[1], triple[2], triple[3]>>
    ELSE <<triple[1] * 2, triple[3] * 2, triple[3]>>

generic_transform(branch, triple) ==
    IF branch = "x" THEN <<triple[1] * 2, triple[2], triple[3]>>
    ELSE IF branch = "z" THEN <<triple[1], triple[2], triple[3] * 2>>
    ELSE <<triple[1] * 2, triple[3] * 2, triple[3]>>

generic_fields_noshape(branch, c) ==
    [grid_width_xyz |-> generic_transform(branch, c.grid_width_xyz),
     grid_shape_xyz |-> c.grid_shape_xyz,
     nproc_grid_xyz |-> generic_transform(branch, c.nproc_grid_xyz)]

generic_fields(branch, c) ==
    [grid_width_xyz |-> generic_transform(branch, c.grid_width_xyz),
     grid_shape_xyz |-> generic_transform(branch, c.grid_shape_xyz),
     nproc_grid_xyz |-> generic_transform(branch, c.nproc_grid_xyz)]

Raise(e, c) == [err |-> e, case |-> c]

resolve_grid_left_unchecked(branch, c, origin, kw) ==
    IF origin = "LEFT"
    THEN Raise("none", ProblemCase(c.grid_left_xyz, kw.grid_width_xyz,
                                   kw.grid_shape_xyz, kw.nproc_grid_xyz))
    ELSE Raise("none", ProblemCase(generic_transform(branch, c.grid_left_xyz),
                                   kw.grid_width_xyz, kw.grid_shape_xyz,
                                   kw.nproc_grid_xyz))

resolve_grid_left(branch, c, origin, kw) ==
    IF origin = "LEFT"
    THEN IF \A i \in 1..3 : c.grid_left_xyz[i] = 0
         THEN Raise("none", ProblemCase(c.grid_left_xyz, kw.grid_width_xyz,
                                        kw.grid_shape_xyz, kw.nproc_grid_xyz))
         ELSE Raise("AssertionError", c)
    ELSE IF origin = "CENTER"
    THEN Raise("none", ProblemCase(generic_transform(branch, c.grid_left_xyz),
                                   kw.grid_width_xyz, kw.grid_shape_xyz,
                                   kw.nproc_grid_xyz))
    ELSE Raise("NameError", c)

\* the result of _next_case: the exception raised (or "none") and the new case
next_case(c, origin, rule) ==
    LET branch == select_transform(rule) IN
    IF branch \in {"AttributeError", "RuntimeError"} THEN Raise(branch, c)
    ELSE resolve_grid_left(branch, c, origin, generic_fields(branch, c))

(* ----------------------------- build_cases ------------------------------ *)
asserts_hold_nobase(b, maxp, minp) ==
    /\ 1 <= maxp
    /\ 0 <= minp /\ minp <= maxp

asserts_hold(b, maxp, minp) ==
    /\ 1 <= maxp
    /\ 0 <= minp /\ minp <= maxp
    /\ total_proc(b) <= maxp

classify_ge(tp, maxp, minp) ==
    IF tp < minp THEN "continue"
    ELSE IF tp >= maxp THEN "return"
    ELSE "yield"

classify_floor_ends(tp, maxp, minp) ==
    IF tp < minp THEN "return"
    ELSE IF tp > maxp THEN "return"
    ELSE "yield"

\* the if/elif on total_proc in the body of the loop
classify(tp, maxp, minp) ==
    IF tp < minp THEN "continue"
    ELSE IF tp > maxp THEN "return"
    ELSE "yield"

loop_body_restart(c, origin, rule, maxp, minp) ==
    LET r == next_case(c, origin, rule) IN
    IF r.err # "none" THEN [kind |-> "raise", err |-> r.err, case |-> c]
    ELSE IF classify(total_proc(r.case), maxp, minp) = "continue"
    THEN [kind |-> "continue", err |-> "none", case |-> c]
    ELSE [kind |-> classify(total_proc(r.case), maxp, minp),
          err |-> "none", case |-> r.case]

\* one iteration of the `while True` loop, from the local `case` = c
loop_body(c, origin, rule, maxp, minp) ==
    LET r == next_case(c, origin, rule) IN
    IF r.err # "none" THEN [kind |-> "raise", err |-> r.err, case |-> c]
    ELSE [kind |-> classify(total_proc(r.case), maxp, minp),
          err |-> "none", case |-> r.case]

\* list(build_cases(...)) as cli_main consumes it
RECURSIVE drain(_, _, _, _, _, _)
drain(c, origin, rule, maxp, minp, acc) ==
    LET o == loop_body(c, origin, rule, maxp, minp) IN
    IF o.kind = "raise" THEN [err |-> o.err, cases |-> acc]
    ELSE IF o.kind = "return" THEN [err |-> "none", cases |-> acc]
    ELSE IF o.kind = "continue" THEN drain(o.case, origin, rule, maxp, minp, acc)
    ELSE drain(o.case, origin, rule, maxp, minp, Append(acc, o.case))

list_build_cases(b, origin, rule, maxp, minp, incl) ==
    IF ~asserts_hold(b, maxp, minp) THEN [err |-> "AssertionError", cases |-> <<>>]
    ELSE drain(b, origin, rule, maxp, minp, IF incl THEN <<b>> ELSE <<>>)

(* ------------------------ inputs of build_cases ------------------------- *)
Triples(S) == {<<a, b, c>> : a \in S, b \in S, c \in S}

BaseLefts == {<<0, 0, 0>>, <<-4, -4, -4>>, <<0, 0, 1>>}
BaseWidths == {<<2, 2, 2>>, <<8, 8, 8>>}
BaseShapes == {<<350, 350, 350>>, <<2, 3, 5>>}

BaseCases ==
    {ProblemCase(l, w, s, n) : l \in BaseLefts, w \in BaseWidths,
                               s \in BaseShapes, n \in Triples(1..MaxBaseProc)}

NoCase == ProblemCase(<<0, 0, 0>>, <<0, 0, 0>>, <<0, 0, 0>>, <<0, 0, 0>>)

GenIdle ==
    /\ base_case = NoCase /\ origin_loc = "LEFT" /\ scale_rule = "X_AXIS"
    /\ max_proc = 1 /\ min_generated_proc = 1 /\ include_base_case = TRUE
    /\ gpc = "idle" /\ case = NoCase /\ prev = NoCase /\ calls = 0
    /\ gerr = "none" /\ yielded = <<>>

CliIdle ==
    /\ test_problem = <<>> /\ max_nproc = 1 /\ cholla_dir_ok = TRUE
    /\ make_jobs = [isbool |-> TRUE, val |-> 0]
    /\ base_dir_exists = TRUE /\ fs0 = {} /\ bin0 = {}
    /\ cpc = "idle" /\ idx = 0 /\ created = {} /\ links = {} /\ bin = {}
    /\ started = {} /\ build_failed = {} /\ copied = {}
    /\ scripts = <<>> /\ cerr = "none"

InitGen ==
    /\ base_case \in BaseCases
    /\ origin_loc \in OriginLoc
    /\ scale_rule \in ScaleRule
    /\ max_proc \in 0..MaxProc
    /\ min_generated_proc \in (-1)..(MaxProc + 1)
    /\ include_base_case \in BOOLEAN
    /\ gpc = "start"
    /\ case = base_case
    /\ prev = base_case
    /\ calls = 0
    /\ gerr = "none"
    /\ yielded = <<>>
    /\ CliIdle

(* ------------------------- steps of build_cases ------------------------- *)
\* first resumption, an assert fails: the generator ends with no case yielded
StartFail ==
    /\ gpc = "start"
    /\ ~asserts_hold(base_case, max_proc, min_generated_proc)
    /\ gpc' = "failed"
    /\ gerr' = "AssertionError"
    /\ UNCHANGED <<base_case, origin_loc, scale_rule, max_proc,
                   min_generated_proc, include_base_case, case, prev, calls,
                   yielded>>
    /\ UNCHANGED clivars

\* first resumption, asserts hold: the base case is yielded when asked for
StartOk ==
    /\ gpc = "start"
    /\ asserts_hold(base_case, max_proc, min_generated_proc)
    /\ yielded' = IF include_base_case THEN <<base_case>> ELSE <<>>
    /\ case' = base_case
    /\ gpc' = "loop"
    /\ UNCHANGED <<base_case, origin_loc, scale_rule, max_proc,
                   min_generated_proc, include_base_case, prev, calls, gerr>>
    /\ UNCHANGED clivars

\* outcome of the next iteration of the loop
outcome ==
    loop_body(case, origin_loc, scale_rule, max_proc, min_generated_proc)

\* _next_case raises: the generator ends with that exception
LoopRaise ==
    /\ gpc = "loop"
    /\ calls < MaxIter
    /\ outcome.kind = "raise"
    /\ prev' = case
    /\ calls' = calls + 1
    /\ gerr' = outcome.err
    /\ gpc' = "failed"
    /\ UNCHANGED <<base_case, origin_loc, scale_rule, max_proc,
                   min_generated_proc, include_base_case, case, yielded>>
    /\ UNCHANGED clivars

\* the derived case is below min_generated_proc: `continue`
LoopContinue ==
    /\ gpc = "loop"
    /\ calls < MaxIter
    /\ outcome.kind = "continue"
    /\ prev' = case
    /\ calls' = calls + 1
    /\ case' = outcome.case
    /\ UNCHANGED <<base_case, origin_loc, scale_rule, max_proc,
                   min_generated_proc, include_base_case, gpc, gerr, yielded>>
    /\ UNCHANGED clivars

\* the derived case is above max_proc: `return None`
LoopReturn ==
    /\ gpc = "loop"
    /\ calls < MaxIter
    /\ outcome.kind = "return"
    /\ prev' = case
    /\ calls' = calls + 1
    /\ case' = outcome.case
    /\ gpc' = "done"
    /\ UNCHANGED <<base_case, origin_loc, scale_rule, max_proc,
                   min_generated_proc, include_base_case, gerr, yielded>>
    /\ UNCHANGED clivars

\* the derived case is yielded
LoopYield ==
    /\ gpc = "loop"
    /\ calls < MaxIter
    /\ outcome.kind = "yield"
    /\ prev' = case
    /\ calls' = calls + 1
    /\ case' = outcome.case
    /\ yielded' = Append(yielded, outcome.case)
    /\ UNCHANGED <<base_case, origin_loc, scale_rule, max_proc,
                   min_generated_proc, include_base_case, gpc, gerr>>
    /\ UNCHANGED clivars

NextGen ==
    \/ StartFail
    \/ StartOk
    \/ LoopRaise
    \/ LoopContinue
    \/ LoopReturn
    \/ LoopYield

SpecGen == InitGen /\ [][NextGen]_vars

\* a generator that is being consumed is resumed until it ends
LiveSpecGen == InitGen /\ [][NextGen]_vars /\ WF_vars(NextGen)

\* the iteration cap never decides anything
CapNotReached == gpc = "loop" => calls < MaxIter

(* ------------------------------ cli_main -------------------------------- *)
\* the registered problems, in sorted order of their names
ProblemNames == <<"adiabatic_disk", "slow_magnetosonic", "sound">>

Names == {ProblemNames[i] : i \in 1..Len(ProblemNames)}

ProblemRegistry ==
    [n \in Names |->
        IF n = "adiabatic_disk"
        THEN [origin_loc |-> "CENTER", scale_rule |-> "Z_AXIS"]
        ELSE [origin_loc |-> "LEFT", scale_rule |-> "X_AXIS"]]

InSeq(x, sq) == \E i \in 1..Len(sq) : sq[i] = x

\* sorted(set(args.test_problem)): the distinct names, in sorted order
RECURSIVE sorted_set_from(_, _)
sorted_set_from(args, i) ==
    IF i > Len(ProblemNames) THEN <<>>
    ELSE IF InSeq(ProblemNames[i], args)
    THEN <<ProblemNames[i]>> \o sorted_set_from(args, i + 1)
    ELSE sorted_set_from(args, i + 1)

sorted_set(args) == sorted_set_from(args, 1)

\* the paths of test_pairs (a path is named by its problem)
test_pairs == sorted_set(test_problem)

\* the current entry of test_pairs
cur == test_pairs[idx]

\* the paths that exist under base_dir
fs == fs0 \cup created

preflight_conflict_first(pairs, existing) ==
    Len(pairs) >= 1 /\ pairs[1] \in existing

\* the filter over test_pairs has an element: a ValueError is raised
preflight_conflict(pairs, existing) ==
    \E i \in 1..Len(pairs) : pairs[i] \in existing

\* the base case cli_main builds for a problem
base_problem_case(props) ==
    IF props.origin_loc = "LEFT"
    THEN ProblemCase(<<0, 0, 0>>, <<2, 2, 2>>, <<350, 350, 350>>, <<1, 1, 1>>)
    ELSE ProblemCase(<<-4, -4, -4>>, <<8, 8, 8>>, <<350, 350, 350>>, <<1, 1, 1>>)

\* the check of make_jobs at the top of _compile_cholla
make_jobs_error(mj) ==
    IF mj.isbool THEN "none"
    ELSE IF mj.val <= 0 THEN "ValueError"
    ELSE "none"

\* pretty_subprocess_run prints the return code and returns: it raises for
\* no return code
pretty_subprocess_run(returncode) == "none"

TotalsOf(cases) == [i \in 1..Len(cases) |-> total_proc(cases[i])]

MakeJobsValues ==
    {[isbool |-> TRUE, val |-> 0], [isbool |-> TRUE, val |-> 1],
     [isbool |-> FALSE, val |-> 0], [isbool |-> FALSE, val |-> 2]}

ReturnCodes == {0, 2}

ArgLists == UNION {[1..n -> Names] : n \in 1..MaxArgs}

InitCli ==
    /\ test_problem \in ArgLists
    /\ max_nproc \in 0..MaxNproc
    /\ cholla_dir_ok \in BOOLEAN
    /\ make_jobs \in MakeJobsValues
    /\ base_dir_exists \in BOOLEAN
    /\ fs0 \in SUBSET Names
    /\ ~base_dir_exists => fs0 = {}
    /\ bin0 \in SUBSET Names
    /\ cpc = "parse"
    /\ idx = 0
    /\ created = {}
    /\ links = {}
    /\ bin = bin0
    /\ started = {}
    /\ build_failed = {}
    /\ copied = {}
    /\ scripts = [n \in Names |-> <<>>]
    /\ cerr = "none"
    /\ GenIdle

Fail(e) == cpc' = "failed" /\ cerr' = e

CliArgs == <<test_problem, max_nproc, cholla_dir_ok, make_jobs, fs0, bin0>>

\* parse_args and the two asserts on cholla_dir and max_nproc
ParseArgs ==
    /\ cpc = "parse"
    /\ IF cholla_dir_ok /\ max_nproc > 0
       THEN cpc' = "preflight" /\ cerr' = cerr
       ELSE Fail("AssertionError")
    /\ UNCHANGED <<CliArgs, base_dir_exists, idx, created, links, bin,
                   started, build_failed, copied, scripts>>
    /\ UNCHANGED genvars

\* base_dir is created when missing, then every path of test_pairs is tested
Preflight ==
    /\ cpc = "preflight"
    /\ base_dir_exists' = TRUE
    /\ IF preflight_conflict(test_pairs, fs)
       THEN Fail("ValueError") /\ idx' = idx
       ELSE cpc' = "mkdir" /\ cerr' = cerr /\ idx' = 1
    /\ UNCHANGED <<CliArgs, created, links, bin, started, build_failed,
                   copied, scripts>>
    /\ UNCHANGED genvars

\* os.mkdir(path), then the list of cases of the problem is built
MkdirAndCases ==
    /\ cpc = "mkdir"
    /\ LET props == ProblemRegistry[cur]
           l == list_build_cases(base_problem_case(props), props.origin_loc,
                                 props.scale_rule, max_nproc, 1, TRUE)
       IN IF cur \in fs
          THEN Fail("FileExistsError") /\ created' = created
          ELSE /\ created' = created \cup {cur}
               /\ IF l.err # "none" THEN Fail(l.err)
                  ELSE IF Len(l.cases) = 0 THEN Fail("AssertionError")
                  ELSE cpc' = "links" /\ cerr' = cerr
    /\ UNCHANGED <<CliArgs, base_dir_exists, idx, links, bin, started,
                   build_failed, copied, scripts>>
    /\ UNCHANGED genvars

\* setup_problem_dir: the symlinks to cholla_dir and to the parameter file
SetupLinks ==
    /\ cpc = "links"
    /\ links' = links \cup {cur}
    /\ cpc' = "buildlink"
    /\ UNCHANGED <<CliArgs, base_dir_exists, idx, created, bin, started,
                   build_failed, copied, scripts, cerr>>
    /\ UNCHANGED genvars

\* maketype_and_param_paths does not find its two files
SetupLinksFail ==
    /\ cpc = "links"
    /\ Fail("RuntimeError")
    /\ UNCHANGED <<CliArgs, base_dir_exists, idx, created, links, bin,
                   started, build_failed, copied, scripts>>
    /\ UNCHANGED genvars

\* _setup_cholla_for_problem up to the check of make_jobs in _compile_cholla
SetupBuild ==
    /\ cpc = "buildlink"
    /\ IF make_jobs_error(make_jobs) # "none"
       THEN Fail(make_jobs_error(make_jobs))
       ELSE cpc' = "clean" /\ cerr' = cerr
    /\ UNCHANGED <<CliArgs, base_dir_exists, idx, created, links, bin,
                   started, build_failed, copied, scripts>>
    /\ UNCHANGED genvars

\* builds/make.type.* exists and is not a symlink
SetupBuildFail ==
    /\ cpc = "buildlink"
    /\ Fail("AssertionError")
    /\ UNCHANGED <<CliArgs, base_dir_exists, idx, created, links, bin,
                   started, build_failed, copied, scripts>>
    /\ UNCHANGED genvars

\* pretty_subprocess_run(("make", "clean")) with exit status rc
MakeClean ==
    /\ cpc = "clean"
    /\ \E rc \in ReturnCodes : \E removes \in BOOLEAN :
          /\ started' = started \cup {cur}
          /\ build_failed' = IF rc # 0 THEN build_failed \cup {cur}
                             ELSE build_failed
          /\ bin' = IF rc = 0 /\ removes THEN bin \ {cur} ELSE bin
          /\ IF pretty_subprocess_run(rc) # "none"
             THEN Fail(pretty_subprocess_run(rc))
             ELSE cpc' = "make" /\ cerr' = cerr
    /\ UNCHANGED <<CliArgs, base_dir_exists, idx, created, links, copied,
                   scripts>>
    /\ UNCHANGED genvars

\* pretty_subprocess_run(main_build_args) with exit status rc
Make ==
    /\ cpc = "make"
    /\ \E rc \in ReturnCodes :
          /\ started' = started \cup {cur}
          /\ build_failed' = IF rc # 0 THEN build_failed \cup {cur}
                             ELSE build_failed
          /\ bin' = IF rc = 0 THEN bin \cup {cur} ELSE bin
          /\ IF pretty_subprocess_run(rc) # "none"
             THEN Fail(pretty_subprocess_run(rc))
             ELSE cpc' = "copy" /\ cerr' = cerr
    /\ UNCHANGED <<CliArgs, base_dir_exists, idx, created, links, copied,
                   scripts>>
    /\ UNCHANGED genvars

\* shutil.copy2 of the binary into the problem directory
CopyBinary ==
    /\ cpc = "copy"
    /\ IF cur \in bin
       THEN copied' = copied \cup {cur} /\ cpc' = "script" /\ cerr' = cerr
       ELSE copied' = copied /\ Fail("FileNotFoundError")
    /\ UNCHANGED <<CliArgs, base_dir_exists, idx, created, links, bin,
                   started, build_failed, scripts>>
    /\ UNCHANGED genvars

\* run_tests.sh is written, one line per case; then the next problem
WriteScript ==
    /\ cpc = "script"
    /\ LET props == ProblemRegistry[cur]
           l == list_build_cases(base_problem_case(props), props.origin_loc,
                                 props.scale_rule, max_nproc, 1, TRUE)
       IN scripts' = [scripts EXCEPT ![cur] = TotalsOf(l.cases)]
    /\ IF idx < Len(test_pairs)
       THEN idx' = idx + 1 /\ cpc' = "mkdir"
       ELSE idx' = idx /\ cpc' = "done"
    /\ UNCHANGED <<CliArgs, base_dir_exists, created, links, bin, started,
                   build_failed, copied, cerr>>
    /\ UNCHANGED genvars

NextCli ==
    \/ ParseArgs
    \/ Preflight
    \/ MkdirAndCases
    \/ SetupLinks
    \/ SetupLinksFail
    \/ SetupBuild
    \/ SetupBuildFail
    \/ MakeClean
    \/ Make
    \/ CopyBinary
    \/ WriteScript

SpecCli == InitCli /\ [][NextCli]_vars

(* ------------------- properties of the case generator ------------------- *)
RECURSIVE Pow2(_)
Pow2(k) == IF k = 0 THEN 1 ELSE 2 * Pow2(k - 1)

Zero3 == <<0, 0, 0>>

\* index in `yielded` of the first derived (non-base) case
FirstDerived == IF include_base_case THEN 2 ELSE 1

\* the documented preconditions of build_cases
ValidArgs ==
    /\ max_proc >= 1
    /\ 0 <= min_generated_proc /\ min_generated_proc <= max_proc
    /\ total_proc(base_case) <= max_proc

\* C1: every yielded case has total_proc <= max_proc and the total_proc of
\* the yielded cases strictly increases in yield order.
C1_CeilingAndIncreasing ==
    /\ \A i \in 1..Len(yielded) : total_proc(yielded[i]) <= max_proc
    /\ \A i \in 1..Len(yielded) : \A j \in 1..Len(yielded) :
          i < j => total_proc(yielded[i]) < total_proc(yielded[j])

C1_Witness ==
    /\ gpc = "done"
    /\ Len(yielded) >= 3
    /\ total_proc(yielded[Len(yielded)]) = max_proc

\* C2: with valid arguments the generator ends after finitely many
\* iterations, also while derived cases are skipped for being below
\* min_generated_proc.
C2_Terminates == ValidArgs => <>(gpc \in {"done", "failed"})

C2_Witness ==
    /\ gpc = "done"
    /\ calls >= 3
    /\ min_generated_proc > 2 * total_proc(base_case)
    /\ Len(yielded) = 1

\* C3: the generator returns at the first derived case whose total_proc is
\* above max_proc, without yielding it; a derived case whose total_proc equals
\* max_proc is yielded; base (1,1,1), LEFT, X_AXIS, max_proc 4 gives the
\* totals 1, 2, 4.
C3_StopsAboveCeiling ==
    /\ gpc = "done" =>
          /\ total_proc(case) > max_proc
          /\ total_proc(prev) <= max_proc
          /\ \A i \in 1..Len(yielded) : yielded[i] # case
    /\ (gpc = "loop" /\ calls >= 1 /\ total_proc(case) = max_proc) =>
          (Len(yielded) >= FirstDerived /\ yielded[Len(yielded)] = case)
    /\ ( /\ gpc = "done"
         /\ base_case.nproc_grid_xyz = <<1, 1, 1>>
         /\ base_case.grid_left_xyz = Zero3
         /\ origin_loc = "LEFT" /\ scale_rule = "X_AXIS"
         /\ max_proc = 4 /\ min_generated_proc = 1 /\ include_base_case ) =>
          /\ Len(yielded) = 3
          /\ total_proc(yielded[1]) = 1
          /\ total_proc(yielded[2]) = 2
          /\ total_proc(yielded[3]) = 4
          /\ yielded[3].nproc_grid_xyz = <<4, 1, 1>>

C3_Witness ==
    /\ gpc = "done"
    /\ base_case.nproc_grid_xyz = <<1, 1, 1>>
    /\ origin_loc = "LEFT" /\ scale_rule = "X_AXIS"
    /\ max_proc = 4 /\ min_generated_proc = 1 /\ include_base_case
    /\ Len(yielded) = 3
    /\ total_proc(yielded[3]) = 4
    /\ total_proc(case) = 8

DoubledAB(t) == <<2 * t[1], 2 * t[2], t[3]>>

\* C4: under XY_PLANE a call of _next_case does not fail and returns
\* grid_width, grid_shape and nproc_grid with axes 0 and 1 doubled and axis 2
\* unchanged.
C4_PlaneDoublesAB ==
    (scale_rule = "XY_PLANE" /\ calls >= 1) =>
        /\ gerr = "none"
        /\ case.grid_width_xyz = DoubledAB(prev.grid_width_xyz)
        /\ case.grid_shape_xyz = DoubledAB(prev.grid_shape_xyz)
        /\ case.nproc_grid_xyz = DoubledAB(prev.nproc_grid_xyz)

\* C5: in every yielded case, on every axis, the cells per partition are
\* those of the base case: grid_shape[i] * base.nproc_grid[i] =
\* base.grid_shape[i] * nproc_grid[i]; grid_width scales by the same factor.
C5_WeakScaling ==
    \A k \in 1..Len(yielded) : \A i \in 1..3 :
        /\ yielded[k].grid_shape_xyz[i] * base_case.nproc_grid_xyz[i]
             = base_case.grid_shape_xyz[i] * yielded[k].nproc_grid_xyz[i]
        /\ yielded[k].grid_width_xyz[i] * base_case.nproc_grid_xyz[i]
             = base_case.grid_width_xyz[i] * yielded[k].nproc_grid_xyz[i]

C5_Witness ==
    /\ Len(yielded) >= 2
    /\ base_case.grid_shape_xyz = <<2, 3, 5>>
    /\ base_case.nproc_grid_xyz = <<2, 1, 1>>
    /\ yielded[2].grid_shape_xyz = <<4, 3, 5>>
    /\ yielded[2].nproc_grid_xyz = <<4, 1, 1>>

C9_NothingOnBadArgs ==
    ~ValidArgs =>
        /\ yielded = <<>>
        /\ calls = 0
        /\ gpc \in {"start", "failed"}
        /\ gpc = "failed" => gerr = "AssertionError"

C9_Witness ==
    /\ gpc = "failed" /\ gerr = "AssertionError"
    /\ include_base_case
    /\ max_proc >= 1
    /\ min_generated_proc = 1
    /\ total_proc(base_case) > max_proc
    /\ yielded = <<>>

\* number of derived cases between the floor and the ceiling
DerivedInRange ==
    Cardinality({k \in 1..MaxIter :
        /\ min_generated_proc <= total_proc(base_case) * Pow2(k)
        /\ total_proc(base_case) * Pow2(k) <= max_proc})

\* C10: the floor filters derived cases only: a derived case below
\* min_generated_proc is not yielded but the next transition starts from it,
\* every yielded derived case has total_proc >= min_generated_proc, and the
\* base case is yielded first and unchanged even when below the floor.
C10_FloorFiltersDerivedOnly ==
    /\ \A i \in FirstDerived..Len(yielded) :
          total_proc(yielded[i]) >= min_generated_proc
    /\ (include_base_case /\ gpc \in {"loop", "done"}) =>
          (Len(yielded) >= 1 /\ yielded[1] = base_case)
    /\ (gpc \in {"loop", "done"} /\ gerr = "none") =>
          total_proc(case) = total_proc(base_case) * Pow2(calls)
    /\ (gpc = "loop" /\ calls >= 1 /\ total_proc(case) < min_generated_proc) =>
          \A i \in 1..Len(yielded) : yielded[i] # case
    /\ gpc = "done" =>
          Len(yielded) = (IF include_base_case THEN 1 ELSE 0) + DerivedInRange

C10_Witness ==
    /\ gpc = "done"
    /\ include_base_case
    /\ total_proc(base_case) = 1
    /\ min_generated_proc = 4
    /\ Len(yielded) = 2
    /\ yielded[1] = base_case
    /\ total_proc(yielded[2]) = 4
    /\ calls = 3

(* ----------------------- properties of cli_main ------------------------- *)
\* some requested problem's directory exists when cli_main starts
ConflictAtStart == \E i \in 1..Len(test_pairs) : test_pairs[i] \in fs0

\* C6: when a requested problem's directory already exists the run aborts
\* with an error before any problem directory is created and before any build
\* is started, wherever the conflicting problem stands among the requested.
C6_PreflightBlocksAll ==
    ConflictAtStart =>
        /\ created = {}
        /\ started = {}
        /\ links = {} /\ copied = {}
        /\ cpc \in {"parse", "preflight", "failed"}
        /\ cpc = "failed" => cerr \in {"AssertionError", "ValueError"}

C6_Witness ==
    /\ test_pairs = <<"slow_magnetosonic", "sound">>
    /\ fs0 = {"sound"}
    /\ cpc = "failed" /\ cerr = "ValueError"
    /\ created = {}

\* C7: a build command that exits with a non-zero status ends the pipeline
\* of its problem with an error: no binary is copied and no run_tests.sh is
\* written for it afterwards, and cli_main does not return normally.
C7_BuildFailurePropagates ==
    \A n \in Names :
        n \in build_failed =>
            /\ n \notin copied
            /\ scripts[n] = <<>>
            /\ ~(cpc = "done" /\ cerr = "none")
====
